---- MODULE Spec2Model ----
(***************************************************************************)
(* Session-token lifecycle of the self-contained variant (back-end/app.py): *)
(* issuance, verification, refresh and cookie transport of the JWT.        *)
(*                                                                         *)
(* Time is counted in ticks since the epoch; TicksPerSecond ticks make a   *)
(* second, so the clock (a float in the code) can fall between two whole   *)
(* seconds while the JWT NumericDate claims iat and exp are whole seconds. *)
(* Each request is served at one clock reading: the successive             *)
(* datetime.now() calls of one handler return the same instant.            *)
(***************************************************************************)
EXTENDS Integers, Sequences, FiniteSets, TLC

VARIABLES
    now,        \* the clock, in ticks since the epoch
    cookie,     \* the access_token cookie the client sends: a token or NoToken
    kept,       \* the copy the client keeps of the token its last login set
    resp,       \* the response to the request served at this instant
    lastIssued, \* the instant the latest token was issued to the client
    account,    \* table account: the rows in the order of their ids
    role,       \* table role
    role_permission,     \* table role_permission
    log_role_permission, \* table log_role_permission
    sess        \* the login requests in flight, each with its own session

\* the state of the token endpoints of app.py
appVars == <<now, cookie, kept, resp, lastIssued>>

\* the persistent store and the logins running against it
dbVars == <<account, role, role_permission, log_role_permission, sess>>

vars == <<now, cookie, kept, resp, lastIssued,
          account, role, role_permission, log_role_permission, sess>>

(* ------------------------------ bounds --------------------------------- *)

\* resolution of the clock: ticks per second
TicksPerSecond == 2

\* the clock is sampled at 0..MaxJitter ticks after each hour mark
MaxJitter == 2

(* -------------------------- program constants -------------------------- *)

ACCESS_TOKEN_EXPIRE_HOURS == 24

REFRESH_INTERVAL_HOURS == 1

MAX_TOKEN_LIFETIME_DAYS == 7

SECRET_KEY == "a_very_secret_dev_key_change_me"

\* a key that is not the server's: what a forger signs with
FORGED_KEY == "not_the_server_key"

(* ------------------------------- time ---------------------------------- *)

SECOND == TicksPerSecond

HOUR == 3600 * SECOND

DAY == 24 * HOUR

\* hours, counted from the first instant, at which the clock is sampled
HourMarks == {0, 1, 2, 24, 25, 168}

StartTime == DAY

Instants == { StartTime + h * HOUR + j : h \in HourMarks, j \in 0..MaxJitter }

Max(a, b) == IF a >= b THEN a ELSE b

\* timegm(dt.utctimetuple()): a datetime becomes whole seconds, fraction dropped
NumericDate(t) == (t \div SECOND) * SECOND

\* int(x) of a float number of seconds: truncation toward zero, result in seconds
IntSeconds(d) == IF d >= 0 THEN d \div SECOND ELSE -((-d) \div SECOND)

(* ----------------------------- user store ------------------------------ *)

Usernames == {"admin_user", "regular_user"}

users_db ==
    [u \in Usernames |->
        IF u = "admin_user"
        THEN [userId |-> 101, username |-> "admin_user",
              fullname |-> "Admin Von Admin", title |-> "System Administrator",
              email |-> "admin@example.com", roles |-> <<1, 2>>]
        ELSE [userId |-> 202, username |-> "regular_user",
              fullname |-> "Reginald User", title |-> "Standard User",
              email |-> "user@example.com", roles |-> <<2>>]]

\* usernames a login request may carry
LoginNames == Usernames \cup {"ghost"}

(* ------------------------------ JWT codec ------------------------------ *)

\* no token: an absent cookie, a response that sets none
NoToken == [none |-> TRUE]

\* existing_max_exp = None
NoMaxExp == -1

\* HMAC of the payload under a key: equal only for equal key and payload
Sign(key, payload) == <<key, payload>>

\* jwt.encode: datetime values of exp and iat become NumericDates, then sign
jwt_encode(claims, key) ==
    LET payload == [claims EXCEPT !.iat = NumericDate(claims.iat),
                                  !.exp = NumericDate(claims.exp)]
    IN  [payload |-> payload, sig |-> Sign(key, payload)]

\* a decode that does not verify the signature
jwt_decode_unverified(token, key, verify_exp, t) ==
    IF token = NoToken
    THEN [err |-> "JWTError"]
    ELSE IF verify_exp /\ token.payload.exp < NumericDate(t)
    THEN [err |-> "ExpiredSignatureError"]
    ELSE [err |-> "none", payload |-> token.payload]

\* jwt.decode: the signature is checked first, then (unless verify_exp is off)
\* exp, when the claims carry one, against the clock in whole seconds
jwt_decode(token, key, verify_exp, t) ==
    IF token = NoToken \/ token.sig # Sign(key, token.payload)
    THEN [err |-> "JWTError"]
    ELSE IF verify_exp /\ "exp" \in DOMAIN token.payload
                       /\ token.payload.exp < NumericDate(t)
    THEN [err |-> "ExpiredSignatureError"]
    ELSE [err |-> "none", payload |-> token.payload]

\* a ceiling computed anew at every issuance
max_expire_ts_recomputed(existing_max_exp, access_expire, t) ==
    Max(access_expire, t + MAX_TOKEN_LIFETIME_DAYS * DAY)

\* the max_exp claim: the given one when refreshing, else a new one
max_expire_ts(existing_max_exp, access_expire, t) ==
    IF existing_max_exp = NoMaxExp
    THEN Max(access_expire, t + MAX_TOKEN_LIFETIME_DAYS * DAY)
    ELSE existing_max_exp

\* an issuance that cuts exp down to a given max_exp
create_jwt_token_clamped(user, existing_max_exp, t) ==
    LET access_expire == t + ACCESS_TOKEN_EXPIRE_HOURS * HOUR
        ceiling == max_expire_ts(existing_max_exp, access_expire, t)
    IN  jwt_encode([sub |-> user.username, iat |-> t,
                    exp |-> IF access_expire > ceiling THEN ceiling ELSE access_expire,
                    max_exp |-> ceiling,
                    userId |-> user.userId, username |-> user.username,
                    fullname |-> user.fullname, title |-> user.title,
                    email |-> user.email, roles |-> user.roles],
                   SECRET_KEY)

create_jwt_token(user, existing_max_exp, t) ==
    LET access_expire == t + ACCESS_TOKEN_EXPIRE_HOURS * HOUR
    IN  jwt_encode([sub |-> user.username, iat |-> t, exp |-> access_expire,
                    max_exp |-> max_expire_ts(existing_max_exp, access_expire, t),
                    userId |-> user.userId, username |-> user.username,
                    fullname |-> user.fullname, title |-> user.title,
                    email |-> user.email, roles |-> user.roles],
                   SECRET_KEY)

(* ---------------------------- verification ----------------------------- *)

credentials_exception ==
    [status |-> 401, detail |-> "Could not validate credentials"]

token_expired_exception ==
    [status |-> 401, detail |-> "Token has expired"]

max_lifetime_exception ==
    [status |-> 401,
     detail |-> "Maximum token lifetime exceeded. Please log in again."]

\* payload.get(name) is None
IsNone(payload, name) == name \notin DOMAIN payload

\* a verification that never looks at max_exp
max_lifetime_passed_unchecked(t, max_exp_ts) == FALSE

\* datetime.now(timezone.utc).timestamp() > max_exp_ts
max_lifetime_passed(t, max_exp_ts) == t > max_exp_ts

\* a try block that checks max_exp before exp
verify_try_lifetime_first(token, t) ==
    LET d == jwt_decode(token, SECRET_KEY, FALSE, t)
    IN  IF d.err # "none"
        THEN [type |-> d.err]
        ELSE IF IsNone(d.payload, "sub") \/ IsNone(d.payload, "max_exp")
        THEN [type |-> "HTTPException", exc |-> credentials_exception]
        ELSE IF max_lifetime_passed(t, d.payload.max_exp)
        THEN [type |-> "HTTPException", exc |-> max_lifetime_exception]
        ELSE IF d.payload.exp < NumericDate(t)
        THEN [type |-> "ExpiredSignatureError"]
        ELSE [type |-> "none", payload |-> d.payload]

\* what the try block of verify_jwt_token raises, "none" when it completes
verify_try(token, t) ==
    LET d == jwt_decode(token, SECRET_KEY, TRUE, t)
    IN  IF d.err # "none"
        THEN [type |-> d.err]
        ELSE IF IsNone(d.payload, "sub") \/ IsNone(d.payload, "max_exp")
        THEN [type |-> "HTTPException", exc |-> credentials_exception]
        ELSE IF max_lifetime_passed(t, d.payload.max_exp)
        THEN [type |-> "HTTPException", exc |-> max_lifetime_exception]
        ELSE [type |-> "none", payload |-> d.payload]

\* UserPayload(**payload): the identity fields of the claims
UserPayload(payload) ==
    [userId |-> payload.userId, username |-> payload.username,
     fullname |-> payload.fullname, title |-> payload.title,
     email |-> payload.email, roles |-> payload.roles]

\* the except clauses in their order: ExpiredSignatureError, JWTError, Exception
verify_jwt_token(token, t) ==
    LET r == verify_try(token, t)
    IN  IF r.type = "ExpiredSignatureError"
        THEN [ok |-> FALSE, exc |-> token_expired_exception]
        ELSE IF r.type = "JWTError"
        THEN [ok |-> FALSE, exc |-> credentials_exception]
        ELSE IF r.type # "none"
        THEN [ok |-> FALSE, exc |-> credentials_exception]
        ELSE [ok |-> TRUE, user |-> UserPayload(r.payload)]

(* ------------------------------ responses ------------------------------ *)

NoResp == [op |-> "none"]

NoBody == [none |-> TRUE]

\* the cookie a response sets: none, or a token with its Max-Age in seconds
NoCookie == [value |-> NoToken, max_age |-> 0]

\* a response that raises HTTPException: no cookie of the handler is kept
Raise(op, req, t, status, detail) ==
    [op |-> op, at |-> t, req |-> req, status |-> status, detail |-> detail,
     body |-> NoBody, set_cookie |-> NoCookie, delete_cookie |-> FALSE]

Return(op, req, t, body, set_cookie, delete_cookie) ==
    [op |-> op, at |-> t, req |-> req, status |-> 200, detail |-> "",
     body |-> body, set_cookie |-> set_cookie, delete_cookie |-> delete_cookie]

\* a cookie whose Max-Age is not held at zero
attach_token_unclamped(token, t) ==
    LET d == jwt_decode(token, SECRET_KEY, FALSE, t)
    IN  IF d.err # "none"
        THEN NoCookie
        ELSE [value |-> token, max_age |-> IntSeconds(d.payload.exp - t)]

attach_token_to_response(token, t) ==
    LET d == jwt_decode(token, SECRET_KEY, FALSE, t)
    IN  IF d.err # "none"
        THEN NoCookie
        ELSE IF ~IsNone(d.payload, "exp") /\ d.payload.exp # 0
        THEN [value |-> token,
              max_age |-> Max(0, IntSeconds(d.payload.exp - t))]
        ELSE [value |-> token,
              max_age |-> ACCESS_TOKEN_EXPIRE_HOURS * 60 * 60]

\* the client's cookie jar after a response
ClientCookie(jar, r) ==
    IF r.delete_cookie THEN NoToken
    ELSE IF r.set_cookie.value = NoToken THEN jar
    ELSE IF r.set_cookie.max_age = 0 THEN NoToken
    ELSE r.set_cookie.value

(* ------------------------------ endpoints ------------------------------ *)

login(username, t) ==
    IF username \notin DOMAIN users_db
    THEN Raise("login", NoToken, t, 401, "Incorrect username")
    ELSE LET token == create_jwt_token(users_db[username], NoMaxExp, t)
         IN  Return("login", NoToken, t, [message |-> "Login successful"],
                    attach_token_to_response(token, t), FALSE)

\* not payload.get(name): the claim is absent or falsy
Falsy(payload, name, zero) == IsNone(payload, name) \/ payload[name] = zero

\* the dependency of /refresh: the token and its claims, or the 401 it raises
get_token_data_for_refresh(token, t) ==
    IF token = NoToken
    THEN [ok |-> FALSE, status |-> 401,
          detail |-> "Missing token cookie for refresh"]
    ELSE LET d == jwt_decode(token, SECRET_KEY, FALSE, t)
         IN  IF d.err # "none"
             THEN [ok |-> FALSE, status |-> 401,
                   detail |-> "Invalid token format"]
             ELSE IF \/ Falsy(d.payload, "sub", "")
                     \/ Falsy(d.payload, "iat", 0)
                     \/ Falsy(d.payload, "max_exp", 0)
             THEN [ok |-> FALSE, status |-> 401,
                   detail |-> "Invalid token structure for refresh"]
             ELSE [ok |-> TRUE, payload |-> d.payload]

\* a refresh that tolerates no verification failure
ContainsExpired_never(detail) == FALSE

\* "expired" in e.detail.lower(), over the details verify_jwt_token raises
ContainsExpired(detail) == detail = token_expired_exception.detail

\* a refresh without the maximum-lifetime check
lifetime_exceeded_unchecked(now_ts, max_exp_ts) == FALSE

\* 1. Check maximum lifetime: now_ts > max_exp_ts
lifetime_exceeded(now_ts, max_exp_ts) == now_ts > max_exp_ts

\* the interval counted with the access lifetime instead of the refresh interval
refresh_allowed_at_ts_by_access(issued_at_ts) ==
    issued_at_ts + ACCESS_TOKEN_EXPIRE_HOURS * HOUR

\* issued_at_ts + timedelta(hours=REFRESH_INTERVAL_HOURS).total_seconds()
refresh_allowed_at_ts(issued_at_ts) ==
    issued_at_ts + REFRESH_INTERVAL_HOURS * HOUR

\* a refresh without the interval check
interval_not_met_unchecked(now_ts, allowed_at_ts) == FALSE

\* an interval check that also turns away the instant the interval ends
interval_not_met_inclusive(now_ts, allowed_at_ts) == now_ts <= allowed_at_ts

\* 2. Check refresh interval: now_ts < refresh_allowed_at_ts
interval_not_met(now_ts, allowed_at_ts) == now_ts < allowed_at_ts

\* a refresh that hands the presented token back when the interval has not
\* elapsed
refresh_token_reattaching(token, t) ==
    LET dep == get_token_data_for_refresh(token, t)
    IN  IF ~dep.ok
        THEN Raise("refresh", token, t, dep.status, dep.detail)
        ELSE
        LET username   == dep.payload.sub
            max_exp_ts == dep.payload.max_exp
            issued_at  == dep.payload.iat
            refresh_allowed_at == refresh_allowed_at_ts(issued_at)
            v == verify_jwt_token(token, t)
        IN  IF lifetime_exceeded(t, max_exp_ts)
            THEN Raise("refresh", token, t, 401,
                  "Maximum session lifetime exceeded. Please log in again.")
            ELSE IF interval_not_met(t, refresh_allowed_at)
            THEN Return("refresh", token, t,
                        [message |-> "Refresh interval not met, try again later.",
                         refresh_success |-> FALSE,
                         next_refresh_allowed_at |-> refresh_allowed_at],
                        attach_token_to_response(token, t), FALSE)
            ELSE IF ~v.ok /\ ~(v.exc.status = 401 /\ ContainsExpired(v.exc.detail))
            THEN Raise("refresh", token, t, v.exc.status, v.exc.detail)
            ELSE IF username \notin DOMAIN users_db
            THEN Raise("refresh", token, t, 500, "Internal inconsistency")
            ELSE LET new_token ==
                        create_jwt_token(users_db[username], max_exp_ts, t)
                 IN  Return("refresh", token, t,
                            [message |-> "Token refreshed successfully",
                             refresh_success |-> TRUE],
                            attach_token_to_response(new_token, t), FALSE)

refresh_token(token, t) ==
    LET dep == get_token_data_for_refresh(token, t)
    IN  IF ~dep.ok
        THEN Raise("refresh", token, t, dep.status, dep.detail)
        ELSE
        LET username   == dep.payload.sub
            max_exp_ts == dep.payload.max_exp
            issued_at  == dep.payload.iat
            refresh_allowed_at == refresh_allowed_at_ts(issued_at)
            v == verify_jwt_token(token, t)
        IN  IF lifetime_exceeded(t, max_exp_ts)
            THEN Raise("refresh", token, t, 401,
                  "Maximum session lifetime exceeded. Please log in again.")
            ELSE IF interval_not_met(t, refresh_allowed_at)
            THEN Return("refresh", token, t,
                        [message |-> "Refresh interval not met, try again later.",
                         refresh_success |-> FALSE,
                         next_refresh_allowed_at |-> refresh_allowed_at],
                        NoCookie, FALSE)
            ELSE IF ~v.ok /\ ~(v.exc.status = 401 /\ ContainsExpired(v.exc.detail))
            THEN Raise("refresh", token, t, v.exc.status, v.exc.detail)
            ELSE IF username \notin DOMAIN users_db
            THEN Raise("refresh", token, t, 500, "Internal inconsistency")
            ELSE LET new_token ==
                        create_jwt_token(users_db[username], max_exp_ts, t)
                 IN  Return("refresh", token, t,
                            [message |-> "Token refreshed successfully",
                             refresh_success |-> TRUE],
                            attach_token_to_response(new_token, t), FALSE)

\* a dependency backed by a session record: only the token issued last is
\* accepted
get_current_user_latest_only(token, t) ==
    IF token = NoToken
    THEN [ok |-> FALSE, exc |-> [status |-> 401, detail |-> "Not authenticated"]]
    ELSE IF ~IsNone(token.payload, "iat")
            /\ token.payload.iat # NumericDate(lastIssued)
    THEN [ok |-> FALSE, exc |-> credentials_exception]
    ELSE verify_jwt_token(token, t)

get_current_user(token, t) ==
    IF token = NoToken
    THEN [ok |-> FALSE, exc |-> [status |-> 401, detail |-> "Not authenticated"]]
    ELSE verify_jwt_token(token, t)

Contains(seq, x) == \E i \in 1..Len(seq) : seq[i] = x

\* an admin dependency that looks at the role before the token is verified
get_current_admin_user_role_first(token, t) ==
    IF token # NoToken /\ ~Contains(token.payload.roles, 1)
    THEN [ok |-> FALSE, exc |-> [status |-> 403, detail |-> "Admin role required"]]
    ELSE get_current_user(token, t)

get_current_admin_user(token, t) ==
    LET current_user == get_current_user(token, t)
    IN  IF ~current_user.ok
        THEN current_user
        ELSE IF ~Contains(current_user.user.roles, 1)
        THEN [ok |-> FALSE,
              exc |-> [status |-> 403, detail |-> "Admin role required"]]
        ELSE current_user

read_protected_page1(token, t) ==
    LET u == get_current_user(token, t)
    IN  IF u.ok THEN Return("page1", token, t, u.user, NoCookie, FALSE)
        ELSE Raise("page1", token, t, u.exc.status, u.exc.detail)

read_protected_page2(token, t) ==
    LET u == get_current_admin_user(token, t)
    IN  IF u.ok THEN Return("page2", token, t, u.user, NoCookie, FALSE)
        ELSE Raise("page2", token, t, u.exc.status, u.exc.detail)

\* a logout that wants a verified session
logout_authenticated(token, t) ==
    LET u == get_current_user(token, t)
    IN  IF u.ok
        THEN Return("logout", token, t, [message |-> "Logout successful"],
                    NoCookie, TRUE)
        ELSE Raise("logout", token, t, u.exc.status, u.exc.detail)

logout(token, t) ==
    Return("logout", token, t, [message |-> "Logout successful"], NoCookie, TRUE)

(* ------------------------------- client -------------------------------- *)

\* what a client without the key can make of a token it holds: the same
\* claims signed with another key, or the expiries pushed out under the old
\* signature
Tampered(token, kind) ==
    IF kind = "resign"
    THEN [token EXCEPT !.sig = Sign(FORGED_KEY, token.payload)]
    ELSE [token EXCEPT !.payload.exp = StartTime + 2 * MAX_TOKEN_LIFETIME_DAYS * DAY,
                       !.payload.max_exp = StartTime + 2 * MAX_TOKEN_LIFETIME_DAYS * DAY]

TamperKinds == {"resign", "extend"}

ValidSig(token) == token # NoToken /\ token.sig = Sign(SECRET_KEY, token.payload)

(* -------------------------- persistent store --------------------------- *)

\* a column that holds NULL
Null == [none |-> TRUE]

\* bcrypt.hashpw: a salted hash, which checkpw matches to its password only
hash_password(password) == [bcrypt |-> password]

\* DEFAULT_ADMIN_PASSWORD of the deployment
ADMIN_PASSWORD == "admin-secret"

\* seed_roles: Admin, then User
SeededRoles ==
    << [id |-> 1, name |-> "Admin",
        description |-> "Has full access to the system"],
       [id |-> 2, name |-> "User",
        description |-> "Can access basic features"] >>

\* seed_admin_user; the flags it does not set are NULL, read as false
SeededAccounts ==
    << [id |-> 1, username |-> "admin",
        password |-> hash_password(ADMIN_PASSWORD),
        full_name |-> "Administrator", title |-> "Built-in Administrator",
        is_domain_user |-> FALSE, is_super_admin |-> TRUE] >>

\* the login requests: each is served on a session of its own
Requests == {1, 2}

IdleSession == [pc |-> "idle"]

\* the store after setup_database.py has run, no login in flight
StoreInit ==
    /\ account = SeededAccounts
    /\ role = SeededRoles
    /\ role_permission = << >>
    /\ log_role_permission = << >>
    /\ sess = [p \in Requests |-> IdleSession]

(* --------------------------- the state machine ------------------------- *)

\* no issuance yet
NoTime == -1

Init ==
    /\ now = StartTime
    /\ cookie = NoToken
    /\ kept = NoToken
    /\ resp = NoResp
    /\ lastIssued = NoTime
    /\ StoreInit

\* the clock moves on to a later instant
Tick ==
    /\ \E t \in Instants : t > now /\ now' = t
    /\ resp' = NoResp
    /\ UNCHANGED <<cookie, kept, lastIssued>>
    /\ UNCHANGED dbVars

\* a request is served: its response is recorded and its cookie applied
Serve(r) ==
    /\ resp' = r
    /\ cookie' = ClientCookie(cookie, r)
    /\ lastIssued' = IF r.set_cookie.value # NoToken THEN now ELSE lastIssued
    /\ UNCHANGED now
    /\ UNCHANGED dbVars

\* POST /login; the client keeps a copy of the token a login hands it
Login ==
    \E username \in LoginNames :
        LET r == login(username, now)
        IN  /\ Serve(r)
            /\ kept' = IF r.set_cookie.value # NoToken
                       THEN r.set_cookie.value ELSE kept

Refresh == Serve(refresh_token(cookie, now)) /\ UNCHANGED kept

Page1 == Serve(read_protected_page1(cookie, now)) /\ UNCHANGED kept

Page2 == Serve(read_protected_page2(cookie, now)) /\ UNCHANGED kept

Logout == Serve(logout(cookie, now)) /\ UNCHANGED kept

\* the client presents the login token it kept instead of the one in the jar
Replay ==
    /\ kept # NoToken
    /\ cookie # kept
    /\ cookie' = kept
    /\ UNCHANGED <<now, kept, resp, lastIssued>>
    /\ UNCHANGED dbVars

\* the client alters the token it holds
Tamper ==
    /\ ValidSig(cookie)
    /\ \E kind \in TamperKinds : cookie' = Tampered(cookie, kind)
    /\ UNCHANGED <<now, kept, resp, lastIssued>>
    /\ UNCHANGED dbVars

Next ==
    \/ Tick
    \/ Login
    \/ Refresh
    \/ Page1
    \/ Page2
    \/ Logout
    \/ Replay
    \/ Tamper

Spec == Init /\ [][Next]_vars

(* ------------------------ vocabulary of the claims --------------------- *)

REFRESH_INTERVAL == REFRESH_INTERVAL_HOURS * HOUR

ACCESS_TTL == ACCESS_TOKEN_EXPIRE_HOURS * HOUR

MAX_LIFETIME == MAX_TOKEN_LIFETIME_DAYS * DAY

LIFETIME_EXCEEDED_ON_REFRESH ==
    "Maximum session lifetime exceeded. Please log in again."

\* the response hands the client a token
SetsCookie(r) == r.op # "none" /\ r.set_cookie.value # NoToken

\* the response of a refresh that renewed the token
Renewed(r) ==
    /\ r.op = "refresh"
    /\ r.status = 200
    /\ r.body.refresh_success = TRUE

\* the response of a refresh that found the interval not elapsed
NotYetEligible(r) ==
    /\ r.op = "refresh"
    /\ r.status = 200
    /\ r.body.refresh_success = FALSE

\* the response of a refresh of a validly signed token with sub, iat, max_exp
RefreshOfValid(r) ==
    /\ r.op = "refresh"
    /\ ValidSig(r.req)
    /\ ~Falsy(r.req.payload, "sub", "")
    /\ ~Falsy(r.req.payload, "iat", 0)
    /\ ~Falsy(r.req.payload, "max_exp", 0)

\* the response of a protected endpoint
Verified(r) == r.op \in {"page1", "page2"}

\* C1: every token handed out by login or refresh has exp <= max_exp
C1_AccessWithinAbsolute ==
    (resp.op \in {"login", "refresh"} /\ SetsCookie(resp)) =>
        resp.set_cookie.value.payload.exp <= resp.set_cookie.value.payload.max_exp

\* C2: a renewed token carries the max_exp of the token that was refreshed,
\* and every server-signed token the client holds carries the max_exp that
\* the login of its session fixed
C2_RefreshKeepsMaxExp ==
    /\ Renewed(resp) =>
          /\ SetsCookie(resp)
          /\ resp.set_cookie.value.payload.max_exp = resp.req.payload.max_exp
    /\ ValidSig(cookie) =>
          /\ ValidSig(kept)
          /\ cookie.payload.max_exp = kept.payload.max_exp
          /\ NumericDate(kept.payload.max_exp - MAX_LIFETIME) = kept.payload.iat

\* a token that is itself the product of a refresh has been refreshed again
C2_Witness ==
    /\ Renewed(resp)
    /\ resp.req.payload.iat > kept.payload.iat
    /\ resp.set_cookie.value.payload.iat > resp.req.payload.iat

\* C3: no token is accepted by a protected endpoint or renewed by refresh at
\* an instant after its max_exp, the ceiling the login of its session fixed
C3_NeverPastCeiling ==
    (Renewed(resp) \/ (Verified(resp) /\ resp.status = 200)) =>
        /\ ValidSig(resp.req)
        /\ resp.at <= resp.req.payload.max_exp
        /\ resp.req.payload.max_exp = kept.payload.max_exp

\* a renewed token whose exp lies past the ceiling is accepted at the ceiling
C3_Witness ==
    /\ Verified(resp)
    /\ resp.status = 200
    /\ resp.req.payload.exp > resp.req.payload.max_exp
    /\ resp.at = resp.req.payload.max_exp

\* C4: refresh of a validly signed token after its max_exp fails with the
\* lifetime-exceeded 401, whatever exp and the refresh interval say
C4_RefreshPastCeilingFails ==
    (RefreshOfValid(resp) /\ resp.at > resp.req.payload.max_exp) =>
        /\ resp.status = 401
        /\ resp.detail = LIFETIME_EXCEEDED_ON_REFRESH
        /\ ~SetsCookie(resp)

\* past the ceiling with exp not passed and the interval not elapsed
C4_Witness ==
    /\ RefreshOfValid(resp)
    /\ resp.at > resp.req.payload.max_exp
    /\ resp.at <= resp.req.payload.exp
    /\ resp.at < resp.req.payload.iat + REFRESH_INTERVAL
    /\ resp.status = 401

\* C5 as stated: refresh before iat + REFRESH_INTERVAL answers not yet
\* eligible with refresh_success false and sets no cookie
C5_EarlyRefreshNotEligible ==
    (RefreshOfValid(resp) /\ resp.at < resp.req.payload.iat + REFRESH_INTERVAL) =>
        /\ NotYetEligible(resp)
        /\ ~SetsCookie(resp)
        /\ ~resp.delete_cookie

\* C5 amended: refresh before iat + REFRESH_INTERVAL and not after max_exp
\* answers not yet eligible with refresh_success false and sets no cookie
C5_EarlyRefreshWithinCeiling ==
    (/\ RefreshOfValid(resp)
     /\ resp.at < resp.req.payload.iat + REFRESH_INTERVAL
     /\ resp.at <= resp.req.payload.max_exp) =>
        /\ NotYetEligible(resp)
        /\ resp.body.next_refresh_allowed_at = resp.req.payload.iat + REFRESH_INTERVAL
        /\ ~SetsCookie(resp)
        /\ ~resp.delete_cookie

\* an early refresh was answered, one tick before it would have been eligible
C5_Witness ==
    /\ NotYetEligible(resp)
    /\ resp.at + 1 = resp.req.payload.iat + REFRESH_INTERVAL

INVALID_ON_VERIFY == credentials_exception.detail

INVALID_ON_REFRESH == "Invalid token format"

\* the request carried a token whose signature does not verify
BadSignature(r) == r.op # "none" /\ r.req # NoToken /\ ~ValidSig(r.req)

\* C6: a token whose signature does not verify is answered 401 Invalid by
\* the protected endpoints and by refresh: never Expired, never
\* not-yet-eligible, never renewed
C6_BadSignatureIsInvalid ==
    /\ (BadSignature(resp) /\ Verified(resp)) =>
          /\ resp.status = 401
          /\ resp.detail = INVALID_ON_VERIFY
          /\ resp.detail # token_expired_exception.detail
    /\ (BadSignature(resp) /\ resp.op = "refresh") =>
          /\ resp.status = 401
          /\ resp.detail = INVALID_ON_REFRESH
          /\ ~NotYetEligible(resp)
          /\ ~Renewed(resp)
          /\ ~SetsCookie(resp)

\* a token signed with another key, its exp passed, its refresh interval
\* elapsed and its max_exp not passed, was presented
C6_Witness ==
    /\ BadSignature(resp)
    /\ resp.op \in {"page1", "refresh"}
    /\ resp.req.payload.exp + SECOND <= resp.at
    /\ resp.req.payload.iat + REFRESH_INTERVAL <= resp.at
    /\ resp.at <= resp.req.payload.max_exp
    /\ resp.status = 401

\* C7: a protected endpoint given a validly signed token with now <= exp and
\* now > max_exp answers with the maximum-lifetime-exceeded detail
C7_VerifyReportsLifetimeExceeded ==
    (/\ Verified(resp)
     /\ ValidSig(resp.req)
     /\ resp.at <= resp.req.payload.exp
     /\ resp.at > resp.req.payload.max_exp) =>
        /\ resp.status = 401
        /\ resp.detail = max_lifetime_exception.detail

\* C8: a renewal comes no earlier than REFRESH_INTERVAL after the issued-at
\* of the latest token handed to the session, by login or by renewal
C8_RenewalsAreSpaced ==
    [][(resp' # resp /\ Renewed(resp')) =>
           now >= NumericDate(lastIssued) + REFRESH_INTERVAL]_vars

\* the full verification of the presented token, as step 3 of refresh runs it
FullVerify(r) == verify_jwt_token(r.req, r.at)

\* C9: refresh of a validly signed token with now > exp, now <= max_exp and
\* now >= iat + REFRESH_INTERVAL renews it: the new token is attached, issued
\* now under the same max_exp; a verification failure other than Expired is
\* returned as the rejection
C9_ExpiredIsTolerated ==
    /\ (/\ RefreshOfValid(resp)
        /\ resp.at > resp.req.payload.exp
        /\ resp.at <= resp.req.payload.max_exp
        /\ resp.at >= resp.req.payload.iat + REFRESH_INTERVAL) =>
          /\ Renewed(resp)
          /\ SetsCookie(resp)
          /\ ValidSig(resp.set_cookie.value)
          /\ resp.set_cookie.value.payload.iat = NumericDate(resp.at)
          /\ resp.set_cookie.value.payload.exp = NumericDate(resp.at + ACCESS_TTL)
          /\ resp.set_cookie.value.payload.max_exp = resp.req.payload.max_exp
    /\ (/\ RefreshOfValid(resp)
        /\ resp.at <= resp.req.payload.max_exp
        /\ resp.at >= resp.req.payload.iat + REFRESH_INTERVAL
        /\ ~FullVerify(resp).ok
        /\ FullVerify(resp).exc # token_expired_exception) =>
          /\ resp.status = FullVerify(resp).exc.status
          /\ resp.detail = FullVerify(resp).exc.detail
          /\ ~SetsCookie(resp)

\* a token that the full verification reports Expired was renewed
C9_Witness ==
    /\ Renewed(resp)
    /\ resp.at > resp.req.payload.exp
    /\ ~FullVerify(resp).ok
    /\ FullVerify(resp).exc = token_expired_exception
    /\ SetsCookie(resp)

\* the token of a login at T0: its max_exp is T0 + MAX_LIFETIME
FromLoginAt(token, T0) ==
    /\ ValidSig(token)
    /\ token.payload.max_exp = T0 + MAX_LIFETIME
    /\ token.payload.iat = NumericDate(T0)
    /\ token.payload.exp = NumericDate(T0 + ACCESS_TTL)

\* refresh of the token of a login at T0, attempted d after T0
RefreshAfter(r, d) == r.op = "refresh" /\ FromLoginAt(r.req, r.at - d)

RenewedUnderSameCeiling(r) ==
    /\ Renewed(r)
    /\ SetsCookie(r)
    /\ r.set_cookie.value.payload.max_exp = r.req.payload.max_exp

\* C10 as stated: refresh at T0+2h answers not yet eligible; refresh at
\* T0+25h renews under the original max_exp
C10_ScenarioAsStated ==
    /\ RefreshAfter(resp, 2 * HOUR) => NotYetEligible(resp)
    /\ RefreshAfter(resp, 25 * HOUR) => RenewedUnderSameCeiling(resp)

\* C10 amended: refresh at T0+2h renews under the original max_exp (one tick
\* after T0 it answers not yet eligible); refresh at T0+25h renews under the
\* original max_exp
C10_ScenarioOneHourInterval ==
    /\ RefreshAfter(resp, 2 * HOUR) => RenewedUnderSameCeiling(resp)
    /\ RefreshAfter(resp, 1) => NotYetEligible(resp)
    /\ RefreshAfter(resp, 25 * HOUR) => RenewedUnderSameCeiling(resp)

\* the login token was renewed 25 hours after the login, its exp passed
C10_Witness ==
    /\ RefreshAfter(resp, 25 * HOUR)
    /\ resp.at > resp.req.payload.exp
    /\ Renewed(resp)


\* C11: a token issued by login or refresh, presented to a protected endpoint
\* at any time up to its exp, is accepted and yields the identity of the user
\* store it was issued for
C11_VerifyReturnsIssuedIdentity ==
    (resp.op = "page1" /\ ValidSig(resp.req)
        /\ resp.at <= resp.req.payload.exp) =>
        /\ resp.status = 200
        /\ resp.body = users_db[resp.req.payload.sub]

\* C26: logout answers success whatever cookie the request carries and
\* leaves the client without a cookie; a protected endpoint asked without a
\* cookie, as the next request after a logout is, answers 401
C26_LogoutClearsSession ==
    [][/\ (resp' # resp /\ resp'.op = "logout") =>
             /\ resp'.status = 200
             /\ resp'.body = [message |-> "Logout successful"]
             /\ cookie' = NoToken
       /\ (Verified(resp') /\ resp'.req = NoToken) => resp'.status = 401
       /\ (resp.op = "logout" /\ cookie = NoToken /\ resp' # resp
             /\ Verified(resp')) => resp'.status = 401]_vars

\* a logout with an expired token in the cookie
C26_Witness ==
    /\ resp.op = "logout"
    /\ resp.status = 200
    /\ ValidSig(resp.req)
    /\ NumericDate(resp.at) > resp.req.payload.exp
    /\ cookie = NoToken

\* the token of the request is signed by the server, exp has not passed on
\* the clock in whole seconds, max_exp has not passed
PassesVerification(r) ==
    /\ r.req # NoToken
    /\ ValidSig(r.req)
    /\ NumericDate(r.at) <= r.req.payload.exp
    /\ r.at <= r.req.payload.max_exp

\* C27: a protected endpoint answers 200 with the token's identity exactly
\* when the token passes verification and, on the role-gated endpoint, the
\* claims hold the admin role; 403 exactly when the token passes and the role
\* is absent on the role-gated endpoint; 401 in every other case
C27_ProtectedEndpoints ==
    Verified(resp) =>
        LET valid == PassesVerification(resp)
            admin == valid /\ Contains(resp.req.payload.roles, 1)
        IN  /\ resp.status \in {200, 401, 403}
            /\ (resp.status = 200) <=> (valid /\ (resp.op = "page2" => admin))
            /\ (resp.status = 200) => resp.body = UserPayload(resp.req.payload)
            /\ (resp.status = 403) <=> (resp.op = "page2" /\ valid /\ ~admin)
            /\ ~valid => resp.status = 401

C27_Witness ==
    /\ resp.op = "page2"
    /\ PassesVerification(resp)
    /\ ~Contains(resp.req.payload.roles, 1)
    /\ resp.status = 403

\* C28: an issued token has iat = now and exp = now + ACCESS_TTL (as
\* NumericDates); max_exp is max(now + ACCESS_TTL, now + MAX_LIFETIME) at
\* login and the max_exp of the refreshed token at refresh, also when that
\* lies before the new exp
C28_IssueSetsExpiries ==
    (resp.op \in {"login", "refresh"} /\ SetsCookie(resp)) =>
        LET new == resp.set_cookie.value.payload
        IN  /\ new.iat = NumericDate(resp.at)
            /\ new.exp = NumericDate(resp.at + ACCESS_TTL)
            /\ resp.op = "login" =>
                  new.max_exp = Max(resp.at + ACCESS_TTL, resp.at + MAX_LIFETIME)
            /\ resp.op = "refresh" => new.max_exp = resp.req.payload.max_exp

\* a renewal whose given max_exp lies before the new exp
C28_Witness ==
    /\ Renewed(resp)
    /\ SetsCookie(resp)
    /\ resp.set_cookie.value.payload.max_exp = resp.req.payload.max_exp
    /\ resp.set_cookie.value.payload.exp > resp.req.payload.max_exp

\* C29 as stated: a validly signed token with now > exp is answered Expired
\* by verification, also when now > max_exp
C29_ExpiredFiresFirst ==
    (Verified(resp) /\ resp.req # NoToken /\ ValidSig(resp.req)
        /\ resp.at > resp.req.payload.exp) =>
        /\ resp.status = 401
        /\ resp.detail = token_expired_exception.detail

\* C29: a validly signed token whose exp lies before the current time in
\* whole seconds is answered Expired by verification, also when now > max_exp
C29_ExpiredByWholeSecondFiresFirst ==
    (Verified(resp) /\ resp.req # NoToken /\ ValidSig(resp.req)
        /\ NumericDate(resp.at) > resp.req.payload.exp) =>
        /\ resp.status = 401
        /\ resp.detail = token_expired_exception.detail

\* both expiries have passed and the answer is Expired
C29_Witness ==
    /\ Verified(resp)
    /\ resp.req # NoToken
    /\ ValidSig(resp.req)
    /\ NumericDate(resp.at) > resp.req.payload.exp
    /\ resp.at > resp.req.payload.max_exp
    /\ resp.detail = token_expired_exception.detail

\* C30: not yet eligible is a 200 that names iat + REFRESH_INTERVAL and sets
\* no cookie; a refresh at exactly iat + REFRESH_INTERVAL renews; a refresh
\* at exactly max_exp is not rejected for lifetime
C30_IntervalBoundaries ==
    RefreshOfValid(resp) =>
        /\ NotYetEligible(resp) =>
              /\ resp.body.next_refresh_allowed_at =
                    resp.req.payload.iat + REFRESH_INTERVAL
              /\ resp.at < resp.req.payload.iat + REFRESH_INTERVAL
              /\ resp.set_cookie = NoCookie
        /\ (resp.at = resp.req.payload.iat + REFRESH_INTERVAL
              /\ resp.at <= resp.req.payload.max_exp) => Renewed(resp)
        /\ resp.at = resp.req.payload.max_exp =>
              ~(resp.status = 401 /\ resp.detail = LIFETIME_EXCEEDED_ON_REFRESH)

\* a refresh at the instant the interval ends
C30_Witness ==
    /\ RefreshOfValid(resp)
    /\ resp.at = resp.req.payload.iat + REFRESH_INTERVAL
    /\ Renewed(resp)

\* the token of the request was issued by the server before the token the
\* server issued last: a refresh has replaced it in the client's jar
Superseded(r, issued) ==
    /\ r.req # NoToken
    /\ ValidSig(r.req)
    /\ ~IsNone(r.req.payload, "iat")
    /\ r.req.payload.iat < NumericDate(issued)

\* the protected endpoint let the request through verification (200, or 403
\* for a verified identity without the role)
Accepted(r) == Verified(r) /\ r.status # 401

\* C31: verification keeps no record of sessions: a validly signed token
\* presented after a refresh superseded it, or as the next request after a
\* logout, is accepted exactly when its own exp (in whole seconds) and its
\* own max_exp have not passed, and the answer carries that token's identity
C31_StatelessValidity ==
    [][/\ (Verified(resp') /\ Superseded(resp', lastIssued')) =>
             /\ Accepted(resp') <=> PassesVerification(resp')
             /\ resp'.status = 200 => resp'.body = UserPayload(resp'.req.payload)
       /\ (resp.op = "logout" /\ resp' # resp /\ Verified(resp')
             /\ ValidSig(resp'.req)) =>
             /\ Accepted(resp') <=> PassesVerification(resp')
             /\ resp'.status = 200 => resp'.body = UserPayload(resp'.req.payload)
      ]_vars

\* the login token is accepted after a refresh issued its successor
C31_Witness ==
    /\ resp.op = "page1"
    /\ resp.status = 200
    /\ resp.req = kept
    /\ Superseded(resp, lastIssued)
    /\ resp.body = users_db[resp.req.payload.sub]

\* C32: a refresh sets a cookie exactly when it renewed the token: every
\* other outcome (401, 500, not yet eligible) carries no Set-Cookie, deletes
\* none, and leaves the client's jar as it was
C32_OnlyRenewalSetsCookie ==
    [][(resp' # resp /\ resp'.op = "refresh") =>
          /\ SetsCookie(resp') <=> Renewed(resp')
          /\ ~Renewed(resp') =>
                /\ resp'.set_cookie = NoCookie
                /\ ~resp'.delete_cookie
                /\ cookie' = cookie
          /\ Renewed(resp') => cookie' = resp'.set_cookie.value]_vars

\* a refresh of a valid token before the interval has elapsed
C32_Witness ==
    /\ NotYetEligible(resp)
    /\ RefreshOfValid(resp)
    /\ resp.set_cookie = NoCookie
    /\ cookie = resp.req

(* ====================== the renewal middleware ========================= *)
(* src/middleware.py, installed by main.py in front of every route.  The   *)
(* tokens it reads are issued outside the back end, under the same key.    *)

TOKEN_RENEW_THRESHOLD_MINUTES == 15
ACCESS_TOKEN_EXPIRE_MINUTES == 20

\* SECRET_KEY of middleware.py
middleware_SECRET_KEY == "default_secret"

MINUTE == 60 * SECOND

\* minutes after the start at which the clock is sampled
MinuteMarks == {0, 4, 5, 20, 21}

MwInstants == { StartTime + m * MINUTE + j : m \in MinuteMarks, j \in 0..MaxJitter }

\* the routes of main.py and a path that matches none
Paths == {"/login", "/"}

\* what the application answers when the request reaches it
HandlerResponses ==
    { [status |-> 200, body |-> [route |-> p]] : p \in Paths }
        \cup { [status |-> 401, body |-> [detail |-> "Invalid Username or Password"]] }

\* a cookie value that is not a JWS at all
Malformed == [payload |-> [none |-> TRUE], sig |-> << >>]

\* the tokens a client can hold at time t: issued for the configured lifetime,
\* issued without an exp claim, signed by someone else, or not a token
IssuedTokens(t) ==
    LET claims == [sub |-> "user", roles |-> <<2>>, iat |-> NumericDate(t),
                   exp |-> NumericDate(t + ACCESS_TOKEN_EXPIRE_MINUTES * MINUTE),
                   max_exp |-> NumericDate(t + MAX_TOKEN_LIFETIME_DAYS * DAY)]
        noexp  == [sub |-> "user", roles |-> <<2>>, iat |-> NumericDate(t)]
    IN  { [payload |-> claims, sig |-> Sign(middleware_SECRET_KEY, claims)],
          [payload |-> noexp, sig |-> Sign(middleware_SECRET_KEY, noexp)],
          [payload |-> claims, sig |-> Sign(FORGED_KEY, claims)],
          Malformed }

\* a middleware that renews on every request
renewal_due_always(exp, t) == TRUE

\* time_remaining <= TOKEN_RENEW_THRESHOLD_MINUTES, time_remaining in minutes
renewal_due(exp, t) == exp - t <= TOKEN_RENEW_THRESHOLD_MINUTES * MINUTE

\* a middleware that lets expired tokens through
is_expired_never(d) == FALSE

\* except jwt.ExpiredSignatureError
is_expired(d) == d.err = "ExpiredSignatureError"

\* the response the client receives, with the number of times the
\* application was called to produce it
MwResponse(token, path, t, status, body, calls, set_cookie) ==
    [op |-> "dispatch", at |-> t, req |-> token, path |-> path,
     status |-> status, body |-> body, handler_calls |-> calls,
     set_cookie |-> set_cookie]

\* return await call_next(request)
call_next(token, path, t, handler) ==
    MwResponse(token, path, t, handler.status, handler.body, 1, NoCookie)

\* a renewal that stamps the token as issued anew
new_token_fresh_iat(payload, t) ==
    LET renewed == [payload EXCEPT
                      !.exp = NumericDate(t + ACCESS_TOKEN_EXPIRE_MINUTES * MINUTE),
                      !.iat = NumericDate(t)]
    IN  [payload |-> renewed, sig |-> Sign(middleware_SECRET_KEY, renewed)]

\* the token with its exp moved to now + ACCESS_TOKEN_EXPIRE_MINUTES
new_token(payload, t) ==
    LET renewed == [payload EXCEPT
                      !.exp = NumericDate(t + ACCESS_TOKEN_EXPIRE_MINUTES * MINUTE)]
    IN  [payload |-> renewed, sig |-> Sign(middleware_SECRET_KEY, renewed)]

\* TokenRenewalMiddleware.dispatch
dispatch(token, path, handler, t) ==
    IF token = NoToken
    THEN call_next(token, path, t, handler)
    ELSE LET d == jwt_decode(token, middleware_SECRET_KEY, TRUE, t)
         IN  IF d.err # "none"
             THEN IF is_expired(d)
                  THEN MwResponse(token, path, t, 401,
                           [detail |-> "Token expired. Please log in again."],
                           0, NoCookie)
                  ELSE call_next(token, path, t, handler)
             ELSE IF IsNone(d.payload, "exp")
             \* payload["exp"] raises KeyError, which no except clause takes
             THEN MwResponse(token, path, t, 500,
                      [detail |-> "Internal Server Error"], 0, NoCookie)
             ELSE IF renewal_due(d.payload.exp, t)
             THEN MwResponse(token, path, t, handler.status, handler.body, 1,
                      [value |-> new_token(d.payload, t),
                       max_age |-> ACCESS_TOKEN_EXPIRE_MINUTES * 60])
             ELSE call_next(token, path, t, handler)

MwTick ==
    /\ \E t \in MwInstants : t > now /\ now' = t
    /\ resp' = NoResp
    /\ UNCHANGED <<cookie, kept, lastIssued>>
    /\ UNCHANGED dbVars

\* the client gets a token from the issuer, or drops its cookie
Obtain ==
    /\ \E token \in IssuedTokens(now) \cup {NoToken} :
            /\ token # cookie
            /\ cookie' = token
    /\ resp' = NoResp
    /\ UNCHANGED <<now, kept, lastIssued>>
    /\ UNCHANGED dbVars

\* a request with the client's cookie goes through the middleware; the client
\* stores the cookie the response sets
Dispatch ==
    /\ \E path \in Paths, handler \in HandlerResponses :
            resp' = dispatch(cookie, path, handler, now)
    /\ cookie' = IF resp'.set_cookie.value = NoToken THEN cookie
                 ELSE resp'.set_cookie.value
    /\ UNCHANGED <<now, kept, lastIssued>>
    /\ UNCHANGED dbVars

NextMw ==
    \/ MwTick
    \/ Obtain
    \/ Dispatch

SpecMw == Init /\ [][NextMw]_vars

(* ------------------------ the cookie's Max-Age ------------------------- *)
(* attach_token_to_response of app.py and the set_cookie of the middleware, *)
(* each applied to tokens of any age.                                       *)

\* the tokens either application has issued at one of its instants
AttachTokens ==
    { create_jwt_token(users_db[u], NoMaxExp, t0) : u \in Usernames, t0 \in Instants }
        \cup UNION { IssuedTokens(t0) : t0 \in MwInstants }

InitAttach ==
    /\ now \in Instants \cup MwInstants
    /\ cookie \in AttachTokens
    /\ kept = NoToken
    /\ resp = NoResp
    /\ lastIssued = NoTime
    /\ StoreInit

\* attach_token_to_response(response, token) at the current time
Attach ==
    /\ resp' = [op |-> "attach", at |-> now, req |-> cookie,
                set_cookie |-> attach_token_to_response(cookie, now)]
    /\ UNCHANGED <<now, cookie, kept, lastIssued>>
    /\ UNCHANGED dbVars

NextAttach ==
    \/ Attach
    \/ Dispatch

SpecAttach == InitAttach /\ [][NextAttach]_vars

(* --------------------- claims about the middleware --------------------- *)

\* the response to a request whose cookie is signed with the middleware's key
MwSigned(r) ==
    /\ r.op = "dispatch"
    /\ r.req # NoToken
    /\ r.req.sig = Sign(middleware_SECRET_KEY, r.req.payload)

\* ... and carries an exp claim
MwSignedWithExp(r) == MwSigned(r) /\ ~IsNone(r.req.payload, "exp")

\* the application was called once and its response is what the client got
HandlerAnswered(r) ==
    /\ r.handler_calls = 1
    /\ [status |-> r.status, body |-> r.body] \in HandlerResponses

\* the 401 of the middleware itself, the application never called
ShortCircuited(r) ==
    /\ r.status = 401
    /\ r.body = [detail |-> "Token expired. Please log in again."]
    /\ r.handler_calls = 0
    /\ r.set_cookie = NoCookie

\* C16 as stated: a validly signed token with now > exp is answered 401 on
\* every path and the handler is not invoked
C16_ExpiredShortCircuits ==
    (MwSignedWithExp(resp) /\ resp.at > resp.req.payload.exp) =>
        ShortCircuited(resp)

\* C16: a validly signed token whose exp is before the current time in whole
\* seconds is answered 401 on every path and the handler is not invoked
C16_ExpiredByWholeSecondShortCircuits ==
    (MwSignedWithExp(resp) /\ NumericDate(resp.at) > resp.req.payload.exp) =>
        ShortCircuited(resp)

C16_Witness ==
    /\ MwSignedWithExp(resp)
    /\ resp.path = "/login"
    /\ NumericDate(resp.at) > resp.req.payload.exp
    /\ ShortCircuited(resp)

\* C17: a cookie with an invalid signature, a malformed one, or a validly
\* signed one without exp, reaches the handler exactly once and the handler's
\* response comes back with no cookie set
C17_BadTokenPassesThrough ==
    (resp.op = "dispatch" /\ resp.req # NoToken
        /\ (~MwSigned(resp) \/ IsNone(resp.req.payload, "exp"))) =>
        /\ HandlerAnswered(resp)
        /\ resp.set_cookie = NoCookie

\* C18: for a validly signed token with now <= exp the handler runs once and
\* its response carries a new token cookie exactly when exp - now is at most
\* 15 minutes; the new token is the old one with exp at now + 20 minutes (a
\* NumericDate); without a cookie the handler's response comes back with no
\* cookie set
C18_RenewsWithinThreshold ==
    /\ (MwSignedWithExp(resp) /\ resp.at <= resp.req.payload.exp) =>
          /\ HandlerAnswered(resp)
          /\ (resp.set_cookie # NoCookie) <=>
                (resp.req.payload.exp - resp.at
                    <= TOKEN_RENEW_THRESHOLD_MINUTES * MINUTE)
          /\ (resp.set_cookie # NoCookie) =>
                /\ resp.set_cookie.value.sig =
                      Sign(middleware_SECRET_KEY, resp.set_cookie.value.payload)
                /\ resp.set_cookie.value.payload =
                      [resp.req.payload EXCEPT !.exp =
                          NumericDate(resp.at + ACCESS_TOKEN_EXPIRE_MINUTES * MINUTE)]
                /\ resp.set_cookie.max_age = ACCESS_TOKEN_EXPIRE_MINUTES * 60
                /\ cookie = resp.set_cookie.value
    /\ (resp.op = "dispatch" /\ resp.req = NoToken) =>
          /\ HandlerAnswered(resp)
          /\ resp.set_cookie = NoCookie

\* a renewal exactly at the threshold
C18_Witness ==
    /\ MwSignedWithExp(resp)
    /\ resp.req.payload.exp - resp.at = TOKEN_RENEW_THRESHOLD_MINUTES * MINUTE
    /\ HandlerAnswered(resp)
    /\ resp.set_cookie # NoCookie
    /\ resp.set_cookie.value.payload.exp > resp.req.payload.exp

\* C35: the token the middleware sets carries the claims of the token it
\* replaces, each with the value it had, except exp, which is strictly later
\* than the old exp; it is signed with the middleware's key
C35_RenewalChangesOnlyExp ==
    (resp.op = "dispatch" /\ resp.set_cookie # NoCookie) =>
        LET old == resp.req.payload
            new == resp.set_cookie.value.payload
        IN  /\ DOMAIN new = DOMAIN old
            /\ \A c \in DOMAIN old \ {"exp"} : new[c] = old[c]
            /\ new.exp > old.exp
            /\ resp.set_cookie.value.sig = Sign(middleware_SECRET_KEY, new)

\* a token with roles, iat and max_exp renewed later than the second it was
\* issued in
C35_Witness ==
    /\ resp.op = "dispatch"
    /\ resp.set_cookie # NoCookie
    /\ {"sub", "roles", "iat", "max_exp"} \subseteq DOMAIN resp.req.payload
    /\ resp.req.payload.iat < NumericDate(resp.at)
    /\ resp.set_cookie.value.payload.iat = resp.req.payload.iat

(* ---------------------- claims about the Max-Age ----------------------- *)

\* the response carries the token cookie
CookieAttached(r) ==
    r.op \in {"attach", "dispatch"} /\ r.set_cookie.value # NoToken

\* what is left of the attached token's access lifetime, in ticks
Remaining(r) == Max(0, r.set_cookie.value.payload.exp - r.at)

\* n is the given duration in whole seconds, rounded down
WholeSecondsOf(n, d) == n >= 0 /\ n * SECOND <= d /\ d < (n + 1) * SECOND

\* C25 as stated: the Max-Age of every attached cookie is the token's
\* remaining access lifetime in whole seconds, max(0, exp - now)
C25_MaxAgeIsRemainingLifetime ==
    CookieAttached(resp) =>
        WholeSecondsOf(resp.set_cookie.max_age, Remaining(resp))

\* C25: attach_token_to_response sets Max-Age to max(0, exp - now) in whole
\* seconds, zero for an expired token; the middleware sets the constant
\* ACCESS_TOKEN_EXPIRE_MINUTES * 60, which is the renewed token's remaining
\* lifetime rounded up to the second; Max-Age is never negative
C25_MaxAgeByApplication ==
    CookieAttached(resp) =>
        /\ resp.set_cookie.max_age >= 0
        /\ resp.op = "attach" =>
              WholeSecondsOf(resp.set_cookie.max_age, Remaining(resp))
        /\ resp.op = "dispatch" =>
              /\ resp.set_cookie.max_age = ACCESS_TOKEN_EXPIRE_MINUTES * 60
              /\ Remaining(resp) <= resp.set_cookie.max_age * SECOND
              /\ resp.set_cookie.max_age * SECOND < Remaining(resp) + SECOND

\* an expired token attached with Max-Age 0
C25_Witness ==
    /\ resp.op = "attach"
    /\ CookieAttached(resp)
    /\ resp.set_cookie.value.payload.exp < resp.at
    /\ resp.set_cookie.max_age = 0

(* ===================== login against the store ========================= *)
(* routers/auth.py and routers/srv/auth.py, the application of main.py.    *)
(* Every await on the session is a step of its own, so that the requests   *)
(* interleave between statements.  A statement reads the rows committed    *)
(* when it runs; a transaction that reads from an older snapshot behaves   *)
(* like one whose reads ran together, which is one of the interleavings.   *)

\* the role create_or_update_user assigns
DEFAULT_ROLE_ID == 2

\* account_id of read_roles when none is given
NoAccountId == 0

DomainUsernames == {"alice", "bob"}

\* the password the directory accepts
DOMAIN_PASSWORD == "domain-secret"

\* the entries the directory may hold for a user at the time of a login
DirectoryEntries ==
    [u \in DomainUsernames |->
        IF u = "alice"
        THEN { [username |-> "alice", fullName |-> "Alice A", title |-> t] :
                    t \in {"Engineer", "Manager"} }
        ELSE { [username |-> "bob", fullName |-> "Bob B", title |-> "Clerk"] }]

\* the form fields of a login request; "" is a missing field
FormUsernames == {"", "admin", "mallory"} \cup DomainUsernames
FormPasswords == {"", ADMIN_PASSWORD, DOMAIN_PASSWORD}

\* what the directory does with the bind and the search: the bind is
\* rejected, the connection fails, the search finds nothing, or it finds
\* the user's entry
LdapOutcomes(username, password) ==
    IF username \in DomainUsernames /\ password = DOMAIN_PASSWORD
    THEN { [kind |-> "entry", entry |-> e] : e \in DirectoryEntries[username] }
            \cup { [kind |-> "no results"], [kind |-> "LDAPError"] }
    ELSE { [kind |-> "AuthenticationError"], [kind |-> "LDAPError"] }

\* a lookup that lets a directory error through to its caller
authenticate_and_get_user_raising(username, password, ldap) ==
    IF username = "" \/ password = ""
    THEN [raised |-> "", value |-> Null]
    ELSE IF ldap.kind = "entry"
    THEN [raised |-> "", value |-> ldap.entry]
    ELSE IF ldap.kind = "LDAPError"
    THEN [raised |-> "LDAPError", value |-> Null]
    ELSE [raised |-> "", value |-> Null]

\* a lookup that answers an empty search with a user of default attributes
authenticate_and_get_user_defaulting(username, password, ldap) ==
    IF username = "" \/ password = ""
    THEN [raised |-> "", value |-> Null]
    ELSE IF ldap.kind = "entry"
    THEN [raised |-> "", value |-> ldap.entry]
    ELSE IF ldap.kind = "no results"
    THEN [raised |-> "",
          value |-> [username |-> username, fullName |-> "N/A", title |-> "N/A"]]
    ELSE [raised |-> "", value |-> Null]

\* authenticate_and_get_user: the DomainUser of the entry found; None on
\* rejected credentials, on an empty search and on any error, none of which
\* is raised to the caller
authenticate_and_get_user(username, password, ldap) ==
    IF username = "" \/ password = ""
    THEN [raised |-> "", value |-> Null]
    ELSE IF ldap.kind = "entry"
    THEN [raised |-> "", value |-> ldap.entry]
    ELSE [raised |-> "", value |-> Null]

\* bcrypt.checkpw
checkpw(password, hashed) == hashed = hash_password(password)

InvalidCredentialsException ==
    [status |-> 401, detail |-> "Invalid Username or Password"]

InternalServerException ==
    [status |-> 500, detail |-> "Internal Server Error"]

\* result.scalar_one_or_none()
scalar_one_or_none(rows) ==
    [raised |-> Len(rows) > 1,
     value  |-> IF Len(rows) = 1 THEN rows[1] ELSE Null]

\* select(Account).where(Account.username == username)
AccountsNamed(username) == SelectSeq(account, LAMBDA a : a.username = username)

\* select(RolePermission).where(account_id == ..., role_id == ...)
RolePermissionsOf(account_id, role_id) ==
    SelectSeq(role_permission,
              LAMBDA r : r.account_id = account_id /\ r.role_id = role_id)

\* a grant that never finds the role assigned
role_exists_never(existing_role) == FALSE

\* if existing_role
role_exists(existing_role) == existing_role # Null

\* a listing that ignores the account
read_roles_of_nobody(account_id) ==
    [i \in 1..Len(role) |-> role[i].name]

\* read_roles: the names of the roles joined to the account's assignments,
\* or of all roles when no account is given
read_roles(account_id) ==
    IF account_id # NoAccountId
    THEN LET assigned == SelectSeq(role_permission,
                                   LAMBDA r : r.account_id = account_id)
             name(role_id) ==
                 (CHOOSE r \in {role[i] : i \in 1..Len(role)} : r.id = role_id).name
         IN  [i \in 1..Len(assigned) |-> name(assigned[i].role_id)]
    ELSE [i \in 1..Len(role) |-> role[i].name]

\* a resolution that gives the super admin only what is assigned to it
get_user_roles_assigned_only(user) == read_roles(user.id)

get_user_roles(user) ==
    IF user.is_super_admin
    THEN read_roles(NoAccountId)
    ELSE read_roles(user.id)

\* a request as login_for_access_token takes it up
NewSession(username, password) ==
    [pc |-> "begin", username |-> username, password |-> password,
     ldap |-> Null, windows_account |-> Null, existing |-> FALSE,
     user |-> Null, role_message |-> "", response |-> Null]

\* raise: the HTTP error the client gets, with the exception that led to it
RaiseHttp(s, exc, cause) ==
    [s EXCEPT !.pc = "done",
              !.response = [status |-> exc.status, detail |-> exc.detail,
                            cause |-> cause, set_cookie |-> NoCookie]]

\* an except clause that answers every exception as bad credentials
login_except_all_invalid(cause) == InvalidCredentialsException

\* the except clauses of login_for_access_token: InvalidCredentialsException
\* is raised again, any other exception becomes InternalServerException
login_except(cause) ==
    IF cause = "InvalidCredentialsException"
    THEN InvalidCredentialsException
    ELSE InternalServerException

\* the request ends with the given exception raised inside the try block
Raised(s, cause) == RaiseHttp(s, login_except(cause), cause)

\* a choice of strategy that sends every username to the directory
is_local_strategy_never(username) == FALSE

\* if username == "admin"
is_local_strategy(username) == username = "admin"

LoginResponse(user, roles) ==
    [status |-> 200, userId |-> user.id, username |-> user.username,
     email |-> <<user.username, "@andalusiagroup.net">>,
     fullName |-> user.full_name, title |-> user.title, roles |-> roles,
     set_cookie |-> NoCookie]

\* sess' is sess with the session of request p replaced
Becomes(p, s) == sess' = [sess EXCEPT ![p] = s]

\* login_for_access_token up to its first statement on the session
BeginLogin(p) ==
    /\ sess[p].pc \in {"idle", "done"}
    /\ \E username \in FormUsernames, password \in FormPasswords :
         LET s == NewSession(username, password)
         IN  IF username = "" \/ password = ""
             THEN Becomes(p, Raised(s, "InvalidCredentialsException"))
             ELSE IF is_local_strategy(username)
             THEN Becomes(p, [s EXCEPT !.pc = "validate"])
             ELSE \E ldap \in LdapOutcomes(username, password) :
                    LET found == authenticate_and_get_user(username, password, ldap)
                        asked == [s EXCEPT !.ldap = ldap]
                    IN  IF found.raised # ""
                        THEN Becomes(p, Raised(asked, found.raised))
                        ELSE IF found.value = Null
                        THEN Becomes(p, Raised(asked, "InvalidCredentialsException"))
                        ELSE Becomes(p, [asked EXCEPT
                                            !.pc = "select_account",
                                            !.windows_account = found.value])
    /\ UNCHANGED <<account, role, role_permission, log_role_permission>>
    /\ UNCHANGED appVars

\* authenticate_admin: validate_user_name_and_password
ValidateAdmin(p) ==
    /\ sess[p].pc = "validate"
    /\ LET s == sess[p]
           found == scalar_one_or_none(AccountsNamed(s.username))
       IN  IF found.raised
           THEN Becomes(p, Raised(s, "MultipleResultsFound"))
           ELSE IF found.value # Null /\ checkpw(s.password, found.value.password)
           THEN Becomes(p, [s EXCEPT !.pc = "read_roles", !.user = found.value])
           ELSE Becomes(p, Raised(s, "InvalidCredentialsException"))
    /\ UNCHANGED <<account, role, role_permission, log_role_permission>>
    /\ UNCHANGED appVars

\* create_or_update_user: the SELECT of the account by username
SelectAccount(p) ==
    /\ sess[p].pc = "select_account"
    /\ LET s == sess[p]
           found == scalar_one_or_none(AccountsNamed(s.windows_account.username))
       IN  IF found.raised
           THEN Becomes(p, Raised(s, "MultipleResultsFound"))
           ELSE Becomes(p, [s EXCEPT !.pc = "commit_account",
                                     !.existing = found.value # Null,
                                     !.user = found.value])
    /\ UNCHANGED <<account, role, role_permission, log_role_permission>>
    /\ UNCHANGED appVars

\* the row session.add(Account(...)) inserts; ids are assigned in order
NewAccount(windows_account) ==
    [id |-> Len(account) + 1, username |-> windows_account.username,
     password |-> Null, full_name |-> windows_account.fullName,
     title |-> windows_account.title,
     is_domain_user |-> TRUE, is_super_admin |-> FALSE]

\* an update that writes the account as a fresh row
UpdatedAccount_replaced(row, windows_account) == NewAccount(windows_account)

\* account.full_name = ..., account.title = ... on the row that was found
UpdatedAccount(row, windows_account) ==
    [row EXCEPT !.full_name = windows_account.fullName,
                !.title = windows_account.title]

\* create_or_update_user: session.commit() flushes the UPDATE or the INSERT;
\* the unique index on username rejects a second row of the same name, and
\* login_for_access_token turns that IntegrityError into its 500
CommitAccount(p) ==
    /\ sess[p].pc = "commit_account"
    /\ LET s == sess[p]
           wa == s.windows_account
       IN  IF s.existing
           THEN /\ account' = [i \in 1..Len(account) |->
                                 IF account[i].id = s.user.id
                                 THEN UpdatedAccount(account[i], wa)
                                 ELSE account[i]]
                /\ Becomes(p, [s EXCEPT !.pc = "refresh"])
           ELSE IF AccountsNamed(wa.username) # << >>
           THEN /\ UNCHANGED account
                /\ Becomes(p, Raised(s, "IntegrityError"))
           ELSE /\ account' = Append(account, NewAccount(wa))
                /\ Becomes(p, [s EXCEPT !.pc = "refresh", !.user = NewAccount(wa)])
    /\ UNCHANGED <<role, role_permission, log_role_permission>>
    /\ UNCHANGED appVars

\* create_or_update_user: session.refresh(account) reloads the row by its id
RefreshAccount(p) ==
    /\ sess[p].pc = "refresh"
    /\ LET s == sess[p]
           row == CHOOSE a \in {account[i] : i \in 1..Len(account)} : a.id = s.user.id
       IN  Becomes(p, [s EXCEPT !.pc = "select_role", !.user = row])
    /\ UNCHANGED <<account, role, role_permission, log_role_permission>>
    /\ UNCHANGED appVars

\* ensure_user_has_role: the SELECT of the assignment and the early return
SelectRole(p) ==
    /\ sess[p].pc = "select_role"
    /\ LET s == sess[p]
           found == scalar_one_or_none(RolePermissionsOf(s.user.id, DEFAULT_ROLE_ID))
       IN  IF found.raised
           THEN Becomes(p, Raised(s, "MultipleResultsFound"))
           ELSE IF role_exists(found.value)
           THEN Becomes(p, [s EXCEPT !.pc = "read_roles",
                                     !.role_message = "Role already assigned to user"])
           ELSE Becomes(p, [s EXCEPT !.pc = "commit_role"])
    /\ UNCHANGED <<account, role, role_permission, log_role_permission>>
    /\ UNCHANGED appVars

\* ensure_user_has_role: session.add(RolePermission(...)), session.commit()
CommitRole(p) ==
    /\ sess[p].pc = "commit_role"
    /\ IF \E r \in {role[i] : i \in 1..Len(role)} : r.id = DEFAULT_ROLE_ID
       THEN /\ role_permission' =
                  Append(role_permission,
                         [id |-> Len(role_permission) + 1,
                          role_id |-> DEFAULT_ROLE_ID,
                          account_id |-> sess[p].user.id])
            /\ Becomes(p, [sess[p] EXCEPT
                              !.pc = "read_roles",
                              !.role_message = "Role successfully assigned to user"])
       \* role_id references role.id: without the role the INSERT is refused
       ELSE /\ UNCHANGED role_permission
            /\ Becomes(p, Raised(sess[p], "IntegrityError"))
    /\ UNCHANGED <<account, role, log_role_permission>>
    /\ UNCHANGED appVars

\* login_for_access_token: get_user_roles and the response
ReadRoles(p) ==
    /\ sess[p].pc = "read_roles"
    /\ Becomes(p, [sess[p] EXCEPT
                      !.pc = "done",
                      !.response = LoginResponse(sess[p].user,
                                                 get_user_roles(sess[p].user))])
    /\ UNCHANGED <<account, role, role_permission, log_role_permission>>
    /\ UNCHANGED appVars

NextDb ==
    \/ \E p \in Requests : BeginLogin(p)
    \/ \E p \in Requests : ValidateAdmin(p)
    \/ \E p \in Requests : SelectAccount(p)
    \/ \E p \in Requests : CommitAccount(p)
    \/ \E p \in Requests : RefreshAccount(p)
    \/ \E p \in Requests : SelectRole(p)
    \/ \E p \in Requests : CommitRole(p)
    \/ \E p \in Requests : ReadRoles(p)

SpecDb == Init /\ [][NextDb]_vars

(* ========================= seeding the store =========================== *)
(* setup_database.py, run by an operator any number of times, one run      *)
(* after the other, while the application serves logins.                   *)

\* the session of the setup script and the session of a login request
SetupRun == 1
LoginClient == 2

\* DEFAULT_ADMIN_PASSWORD as the environment of a run sets it
SeedPasswords == {ADMIN_PASSWORD, "rotated-secret"}

\* a seeding that adds its roles on every run
roles_missing_always(existing_roles) == TRUE

\* if not existing_roles
roles_missing(existing_roles) == existing_roles = << >>

\* if not admin_user
admin_missing(admin_user) == admin_user = Null

\* result.first()
first(rows) == IF rows = << >> THEN Null ELSE rows[1]

\* session.add_all(roles): the rows get the next ids in the order given
AddedRoles ==
    [i \in 1..Len(SeededRoles) |-> [SeededRoles[i] EXCEPT !.id = Len(role) + i]]

\* Account(username="admin", password=hash_password(ADMIN_PASSWORD), ...)
AdminAccount(admin_password) ==
    [SeededAccounts[1] EXCEPT !.password = hash_password(admin_password)]

\* the database after create_tables on a new server
InitSeed ==
    /\ now = StartTime
    /\ cookie = NoToken
    /\ kept = NoToken
    /\ resp = NoResp
    /\ lastIssued = NoTime
    /\ account = << >>
    /\ role = << >>
    /\ role_permission = << >>
    /\ log_role_permission = << >>
    /\ sess = [p \in Requests |-> IdleSession]

\* main_async up to seed_default_values, with the environment of this run
BeginSeed ==
    /\ sess[SetupRun].pc \in {"idle", "seeded"}
    /\ \E admin_password \in SeedPasswords :
          Becomes(SetupRun, [pc |-> "seed_roles",
                             admin_password |-> admin_password,
                             pending |-> Null])
    /\ UNCHANGED <<account, role, role_permission, log_role_permission>>
    /\ UNCHANGED appVars

\* seed_roles: the roles are added and committed when the table is empty
SeedRoles ==
    /\ sess[SetupRun].pc = "seed_roles"
    /\ role' = IF roles_missing(role) THEN role \o AddedRoles ELSE role
    /\ Becomes(SetupRun, [sess[SetupRun] EXCEPT !.pc = "seed_admin"])
    /\ UNCHANGED <<account, role_permission, log_role_permission>>
    /\ UNCHANGED appVars

\* seed_admin_user: the account is added to the session when none is found
SeedAdmin ==
    /\ sess[SetupRun].pc = "seed_admin"
    /\ LET s == sess[SetupRun]
           admin_user == first(AccountsNamed("admin"))
       IN  Becomes(SetupRun,
                   [s EXCEPT !.pc = "commit_seed",
                             !.pending = IF admin_missing(admin_user)
                                         THEN AdminAccount(s.admin_password)
                                         ELSE Null])
    /\ UNCHANGED <<account, role, role_permission, log_role_permission>>
    /\ UNCHANGED appVars

\* seed_default_values: session.commit(), or the rollback when the unique
\* index on username refuses the INSERT
CommitSeed ==
    /\ sess[SetupRun].pc = "commit_seed"
    /\ LET pending == sess[SetupRun].pending
       IN  account' = IF pending = Null \/ AccountsNamed("admin") # << >>
                      THEN account
                      ELSE Append(account,
                                  [pending EXCEPT !.id = Len(account) + 1])
    /\ Becomes(SetupRun, [sess[SetupRun] EXCEPT !.pc = "seeded"])
    /\ UNCHANGED <<role, role_permission, log_role_permission>>
    /\ UNCHANGED appVars

NextSeed ==
    \/ BeginSeed
    \/ SeedRoles
    \/ SeedAdmin
    \/ CommitSeed
    \/ BeginLogin(LoginClient)
    \/ ValidateAdmin(LoginClient)
    \/ SelectAccount(LoginClient)
    \/ CommitAccount(LoginClient)
    \/ RefreshAccount(LoginClient)
    \/ SelectRole(LoginClient)
    \/ CommitRole(LoginClient)
    \/ ReadRoles(LoginClient)

SpecSeed == InitSeed /\ [][NextSeed]_vars

(* ------------------------ claims about the store ----------------------- *)

\* the set of the elements of a sequence
Elements(seq) == { seq[i] : i \in 1..Len(seq) }

\* request p has been answered with an error that came from the given exception
FailedWith(p, cause) ==
    /\ sess[p].pc = "done"
    /\ sess[p].response.status # 200
    /\ sess[p].response.cause = cause

\* request p has been answered with the user's data
Succeeded(p) == sess[p].pc = "done" /\ sess[p].response.status = 200

\* request p takes the step that leaves the given position
Leaves(p, pc) == sess[p].pc = pc /\ sess'[p].pc # pc

\* C12: the role-assignment table never holds two rows for the same
\* (account_id, role_id) pair, whatever logins overlap
C12_OneRowPerPair ==
    \A i, j \in 1..Len(role_permission) :
        (/\ role_permission[i].account_id = role_permission[j].account_id
         /\ role_permission[i].role_id = role_permission[j].role_id) => i = j

\* C13: at most one Account row per username exists, and the login that
\* loses the race to create it is not answered with an internal server error
C13_CreationRaceIsConflict ==
    /\ \A i, j \in 1..Len(account) :
          account[i].username = account[j].username => i = j
    /\ \A p \in Requests :
          FailedWith(p, "IntegrityError") => sess[p].response.status # 500

\* C14: every assignment row has an audit entry for its account and role,
\* and there are no more audit entries than assignment rows
C14_GrantIsAudited ==
    /\ \A i \in 1..Len(role_permission) :
          \E k \in 1..Len(log_role_permission) :
              /\ log_role_permission[k].account_id = role_permission[i].account_id
              /\ log_role_permission[k].role_id = role_permission[i].role_id
    /\ Len(log_role_permission) <= Len(role_permission)

\* C15: a grant made when the account already holds the role once changes
\* nothing in the store, raises nothing and reports the role as already
\* assigned, so one row remains
C15_SecondGrantIsNoOp ==
    [][\A p \in Requests :
          (/\ Leaves(p, "select_role")
           /\ Len(RolePermissionsOf(sess[p].user.id, DEFAULT_ROLE_ID)) = 1) =>
              /\ UNCHANGED <<account, role, role_permission, log_role_permission>>
              /\ sess'[p].pc = "read_roles"
              /\ sess'[p].role_message = "Role already assigned to user"]_vars

\* two logins of the same account in sequence: the first granted the role,
\* the second found it, and one row is there
C15_Witness ==
    \E p, q \in Requests :
        /\ Succeeded(p) /\ Succeeded(q)
        /\ sess[p].user.id = sess[q].user.id
        /\ sess[p].role_message = "Role successfully assigned to user"
        /\ sess[q].role_message = "Role already assigned to user"
        /\ Len(RolePermissionsOf(sess[q].user.id, DEFAULT_ROLE_ID)) = 1

\* C19: a successful directory login leaves one Account row of that username
\* with the directory's full name and title, created with is_domain_user
\* when there was none; when the login completes the account holds the
\* default role exactly once, and for a username that was new the response's
\* roles are exactly <<"User">>
C19_DirectoryLoginReconciles ==
    [][\A p \in Requests :
          /\ (Leaves(p, "commit_account") /\ sess'[p].pc = "refresh") =>
                LET wa == sess[p].windows_account
                    rows == SelectSeq(account', LAMBDA a : a.username = wa.username)
                IN  /\ Len(rows) = 1
                    /\ rows[1].full_name = wa.fullName
                    /\ rows[1].title = wa.title
                    /\ ~sess[p].existing => rows[1].is_domain_user
          /\ (Leaves(p, "read_roles") /\ sess[p].windows_account # Null) =>
                /\ Len(RolePermissionsOf(sess[p].user.id, DEFAULT_ROLE_ID)) = 1
                /\ ~sess[p].existing => sess'[p].response.roles = <<"User">>]_vars

\* the names of the roles assigned to an account
AssignedRoleNames(account_id) ==
    { r.name : r \in { x \in Elements(role) :
                          \E a \in Elements(role_permission) :
                              a.account_id = account_id /\ a.role_id = x.id } }

\* C20: the roles in a login response are the names of all roles when the
\* account is a super admin, and otherwise the names of the roles assigned
\* to the account and no other
C20_RolesResolved ==
    [][\A p \in Requests :
          Leaves(p, "read_roles") =>
              LET acc == CHOOSE a \in Elements(account) : a.id = sess[p].user.id
                  got == Elements(sess'[p].response.roles)
              IN  IF acc.is_super_admin
                  THEN got = { r.name : r \in Elements(role) }
                  ELSE got = AssignedRoleNames(acc.id)]_vars

\* the administrator has been given both roles and a directory user its one
C20_Witness ==
    \E p, q \in Requests :
        /\ Succeeded(p) /\ Succeeded(q)
        /\ sess[p].user.is_super_admin
        /\ Elements(sess[p].response.roles) = {"Admin", "User"}
        /\ ~sess[q].user.is_super_admin
        /\ sess[q].response.roles = <<"User">>
        /\ AssignedRoleNames(sess[q].user.id) = {"User"}

\* the password matches the hash stored for the reserved account
AdminPasswordMatches(password) ==
    \E a \in Elements(account) :
        a.username = "admin" /\ checkpw(password, a.password)

\* request p was turned away for its credentials: a wrong password for the
\* reserved account, a bind the directory rejected (unknown user or wrong
\* password), a directory that could not be reached, a search without result
CredentialFailure(p) ==
    /\ sess[p].pc = "done"
    /\ \/ sess[p].username = "admin" /\ ~AdminPasswordMatches(sess[p].password)
       \/ /\ sess[p].ldap # Null
          /\ sess[p].ldap.kind \in {"AuthenticationError", "LDAPError", "no results"}

\* C21: every login that fails for its credentials or for the directory gets
\* the same answer, 401 with one detail, whatever the cause
C21_FailuresIndistinguishable ==
    /\ \A p \in Requests :
          CredentialFailure(p) =>
              /\ sess[p].response.status = 401
              /\ sess[p].response.detail = "Invalid Username or Password"
    /\ \A p, q \in Requests :
          (CredentialFailure(p) /\ CredentialFailure(q)) =>
              /\ sess[p].response.status = sess[q].response.status
              /\ sess[p].response.detail = sess[q].response.detail

\* a wrong admin password and an unreachable directory, answered alike
C21_Witness ==
    \E p, q \in Requests :
        /\ CredentialFailure(p) /\ CredentialFailure(q)
        /\ sess[p].username = "admin"
        /\ sess[q].ldap # Null
        /\ sess[q].ldap.kind = "LDAPError"
        /\ sess[p].response.detail = sess[q].response.detail

\* C22: a login the directory accepted ends in success or in 500 Internal
\* Server Error, never in 401; a failed write of the account or of the role
\* ends in 500, and a success has its account row and its role row
C22_WriteFailureIsInternalError ==
    \A p \in Requests :
        (sess[p].pc = "done" /\ sess[p].windows_account # Null) =>
            /\ sess[p].response.status \in {200, 500}
            /\ sess[p].response.status = 500 =>
                  /\ sess[p].response.detail = "Internal Server Error"
                  /\ sess[p].response.cause \in {"IntegrityError", "MultipleResultsFound"}
            /\ sess[p].response.status = 200 =>
                  /\ AccountsNamed(sess[p].windows_account.username) # << >>
                  /\ RolePermissionsOf(sess[p].user.id, DEFAULT_ROLE_ID) # << >>

\* the directory accepted and the INSERT of the account failed
C22_Witness ==
    \E p \in Requests :
        /\ FailedWith(p, "IntegrityError")
        /\ sess[p].ldap.kind = "entry"
        /\ sess[p].response.status = 500

\* C23: a login as "admin" never asks the directory and succeeds only with
\* the password of the stored hash, failing with 401 otherwise; a login with
\* any other username never reads the stored password, asks the directory
\* whenever the form has a password, and succeeds only on the entry the
\* directory returns
C23_StrategyByUsername ==
    \A p \in Requests :
        (sess[p].pc # "idle" /\ sess[p].username # "") =>
            IF sess[p].username = "admin"
            THEN /\ sess[p].ldap = Null
                 /\ sess[p].windows_account = Null
                 /\ Succeeded(p) => AdminPasswordMatches(sess[p].password)
                 /\ (sess[p].pc = "done" /\ ~AdminPasswordMatches(sess[p].password)) =>
                        /\ sess[p].response.status = 401
                        /\ sess[p].response.cause = "InvalidCredentialsException"
            ELSE /\ sess[p].password # "" => sess[p].ldap # Null
                 /\ sess[p].pc # "validate"
                 /\ Succeeded(p) =>
                        /\ sess[p].ldap # Null
                        /\ sess[p].ldap.kind = "entry"
                        /\ sess[p].windows_account = sess[p].ldap.entry

\* the administrator and a directory user, each logged in its own way
C23_Witness ==
    \E p, q \in Requests :
        /\ Succeeded(p) /\ Succeeded(q)
        /\ sess[p].username = "admin" /\ sess[p].ldap = Null
        /\ sess[q].username # "admin" /\ sess[q].ldap.kind = "entry"

tables == <<account, role, role_permission, log_role_permission>>

\* the step answers request p with 401
Rejects(p) ==
    /\ sess'[p] # sess[p]
    /\ sess'[p].pc = "done"
    /\ sess'[p].response.status = 401

\* C33: a login with a missing field, or one that the directory rejects,
\* fails to answer or finds nothing for, is answered 401 in its first step;
\* the step that answers a login with 401 changes no table, and before it the
\* request has taken no step but the reading of the admin's account
C33_FailedLoginWritesNothing ==
    [][\A p \in Requests :
          /\ Rejects(p) =>
                /\ UNCHANGED tables
                /\ sess[p].pc \in {"idle", "done", "validate"}
          /\ (sess'[p] # sess[p] /\ sess[p].pc \in {"idle", "done", "validate"}) =>
                UNCHANGED tables
          /\ (sess'[p] # sess[p] /\ sess[p].pc \in {"idle", "done"}
                /\ \/ sess'[p].username = ""
                   \/ sess'[p].password = ""
                   \/ /\ sess'[p].ldap # Null
                      /\ sess'[p].ldap.kind # "entry") => Rejects(p)
          /\ (Leaves(p, "validate") /\ ~AdminPasswordMatches(sess[p].password)) =>
                Rejects(p)]_vars

\* a login the directory found nothing for, a login without password and a
\* wrong admin password can each be the one rejected while the store holds
\* what the seeding and an earlier directory login left
C33_Witness ==
    \E p, q \in Requests :
        /\ FailedWith(p, "InvalidCredentialsException")
        /\ sess[p].ldap # Null
        /\ sess[p].ldap.kind = "no results"
        /\ Succeeded(q)
        /\ Len(account) = Len(SeededAccounts) + 1
        /\ Len(role_permission) = 1
        /\ \A i \in 1..Len(account) : account[i].username # sess[p].username

\* C34: the commit of a directory login that found its account leaves the
\* number of accounts as it was, leaves every other account as it was, and
\* changes of the account only full_name and title, to the directory's
\* values; one row bears the username; no other table changes, and no later
\* step of the login touches the accounts
C34_ReauthUpdatesNameAndTitle ==
    [][\A p \in Requests :
          /\ (Leaves(p, "commit_account") /\ sess[p].existing) =>
                LET wa == sess[p].windows_account
                    id == sess[p].user.id
                IN  /\ sess'[p].pc = "refresh"
                    /\ Len(account') = Len(account)
                    /\ \A i \in 1..Len(account) :
                          IF account[i].id = id
                          THEN /\ account'[i].id = account[i].id
                               /\ account'[i].username = account[i].username
                               /\ account'[i].password = account[i].password
                               /\ account'[i].is_domain_user = account[i].is_domain_user
                               /\ account'[i].is_super_admin = account[i].is_super_admin
                               /\ account'[i].full_name = wa.fullName
                               /\ account'[i].title = wa.title
                          ELSE account'[i] = account[i]
                    /\ Cardinality({ i \in 1..Len(account') :
                                        account'[i].username = wa.username }) = 1
                    /\ UNCHANGED <<role, role_permission, log_role_permission>>
          /\ (sess'[p] # sess[p] /\ sess[p].pc # "commit_account") =>
                UNCHANGED account]_vars

\* an account whose title the directory has changed since its last login
C34_Witness ==
    \E p, q \in Requests :
        /\ sess[p].pc = "refresh"
        /\ sess[p].existing
        /\ Succeeded(q)
        /\ sess[q].response.userId = sess[p].user.id
        /\ sess[q].response.title # sess[p].windows_account.title
        /\ \E i \in 1..Len(account) :
              /\ account[i].id = sess[p].user.id
              /\ account[i].title = sess[p].windows_account.title
              /\ account[i].is_domain_user

\* a run of the setup script has finished
Seeded == sess[SetupRun].pc = "seeded"

====
